---- MODULE Spec2Model ----
(***************************************************************************)
(* Workflow execution engine of hyperchain: the DAG scheduler              *)
(* (executeWorkflow), the progress bus (registerSSEListener / emit), the   *)
(* execution row of the store and the HTTP route that spawns the scheduler.*)
(* One scheduler action is the code between two awaits: JavaScript runs    *)
(* that code without interleaving, so other requests (a client opening the *)
(* stream) are served only while the scheduler is suspended in an await.   *)
(***************************************************************************)
EXTENDS Integers, Sequences, FiniteSets, TLC

\* Bounds of the model. The size of a workflow document is the number of its
\* nodes plus the number of its edges: Init draws every graph of size at most
\* MaxSize, and every assignment of node types and data over the graphs of
\* size at most MaxTypedSize.
MaxSize == 6
MaxTypedSize == 4
MaxLiveSize == 5

\* Bounds of the credential model: the rows created, the ticks of the clock,
\* and the lifetime (in ticks) the token endpoint gives a refreshed token.
MaxCredentials == 2
MaxClock == 2
MaxExpiresIn == 2

\* Bounds of the crypto model: the initialisation vectors randomBytes may
\* draw, and the numbers among the values handed to encrypt.
MaxIv == 2
MaxNumber == 2

\* Bound of the bus model: the emit calls made.
MaxEmits == 2

\* Bound of the template model: the segments of a reference's path.
MaxPath == 3

\* Bound of the code-node model: the times the polling interval fires
\* before the failsafe timer does.
MaxPolls == 3

VARIABLES
    \* The workflow document and the request (inputs, fixed by Init).
    nodes,          \* workflow.nodes: sequence of node ids, in document order
    nodeType,       \* node id -> node.type
    nodeData,       \* node id -> the fields of node.data that hold a truthy value
    edges,          \* workflow.edges: sequence of [source, target]
    triggerData,    \* executeWorkflow's triggerData argument
    \* executeWorkflow's locals.
    pc,             \* the await the scheduler is suspended in
    nodeProgress,   \* node id -> NodeStatus
    context,        \* node id -> output (a partial map; its DOMAIN are the keys)
    queue,          \* the ready queue (node ids; GhostId stands for `undefined`)
    visited,        \* the visited set
    current,        \* currentNode.id while its handler runs
    errorMessage,   \* the message carried to the next store call
    \* The store and the progress bus.
    row,            \* the execution row
    sseListeners,   \* the subscriber table: execution id -> the writers
                    \* registered for it, in insertion order (a Set)
    received,       \* writer -> the snapshots it was called with
    broken,         \* the writers whose calls throw
    emitResult,     \* how the last emit call of the bus's caller ended
    \* The credential store and the email handler.
    credentials,    \* the credentials table: row id -> [type, data]
    now,            \* Date.now()
    mail,           \* executeEmail's position and locals
    mailResult,     \* how the last executeEmail call ended
    \* A caller of the crypto module.
    secret,         \* the value handed to encrypt
    token,          \* what encrypt returned
    roundTrip,      \* what decrypt made of the token
    \* History (not program state).
    emitted,        \* every snapshot passed to emit, in order
    descendants,    \* node id -> the nodes reachable from it through edges
                    \* (a function of the document, kept for the properties)
    invoked,        \* the ids executeNode was called with, in order
    registered,     \* the pairs <<execution id, writer>> registered and not
                    \* unregistered since
    redundant,      \* the kinds of bus call made so far that had nothing to
                    \* do: "register" of a registered writer, "unregister"
                    \* of one that is not registered
    resolved,       \* the last resolveTemplateVariables call: its value,
                    \* its context and what it returned
    sandbox,        \* executeCode's position, the user code it runs, the
                    \* $result slot, the wrapped promise, the polls made
    codeResult,     \* how the executeCode call ended
    storeCalls      \* every storage.updateExecution call: the update, whether
                    \* the store accepted it, the snapshots emitted before it

wf == <<nodes, nodeType, nodeData, edges, triggerData, descendants>>
sched == <<pc, nodeProgress, context, queue, visited, current, errorMessage>>
bus == <<sseListeners, received>>
busEnv == <<broken, emitResult, registered, redundant>>
hist == <<emitted, invoked, storeCalls>>
vault == <<credentials, now, mail, mailResult>>
crypt == <<secret, token, roundTrip>>
lib == <<resolved, sandbox, codeResult>>
vars == <<wf, sched, row, bus, busEnv, hist, vault, crypt, lib>>

\* An id that is the id of no node: what an ill-formed edge refers to, and
\* what nodeMap[id] (undefined) is on the queue.
GhostId == "ghost"

\* The ids of the nodes of a document, in document order.
NodeIds == [i \in 1 .. MaxSize |-> "n" \o ToString(i)]

\* The execution the scheduler runs, and the ids streams are opened for.
ExecutionId == "e1"

ExecutionIds == {"e1", "e2"}

\* The writers of the clients that follow the scheduler's execution, and all
\* the writers there are.
Writers == {"w1"}

BusWriters == {"w1", "w2"}

Range(s) == {s[i] : i \in DOMAIN s}

NodeSet == Range(nodes)

EmptyMap == [x \in {} |-> "output"]

\* ------------------------------------------------------------------
\* Error values: { prefix, node, text }.
NoError == [prefix |-> "", node |-> GhostId, text |-> "null"]

HandlerError(id) == [prefix |-> "", node |-> id, text |-> "handler failed"]

TypeErrorMsg == [prefix |-> "", node |-> GhostId, text |-> "Cannot read properties of undefined"]

StoreErrorMsg == [prefix |-> "", node |-> GhostId, text |-> "store unavailable"]

Unexpected(e) == [e EXCEPT !.prefix = "Unexpected error: "]

\* validateNodeInputs: the field a node misses, "null" when it misses none.
validateNodeInputs(id) ==
    IF nodeType[id] = "code" /\ "code" \notin nodeData[id] THEN "code" ELSE "null"

ValidationError(id) ==
    [prefix |-> "Validation error: ", node |-> id,
     text |-> "Missing required field: " \o validateNodeInputs(id)]

\* The first node, in document order, that fails validation (GhostId: none).
FirstInvalid ==
    LET bad == {i \in DOMAIN nodes : validateNodeInputs(nodes[i]) # "null"}
    IN IF bad = {} THEN GhostId
       ELSE nodes[CHOOSE i \in bad : \A j \in bad : i <= j]

\* ------------------------------------------------------------------
\* buildGraph and getParents.
adj(id) ==
    LET out == SelectSeq(edges, LAMBDA e : e.source = id)
    IN [i \in DOMAIN out |-> out[i].target]

inDegree(id) == Len(SelectSeq(edges, LAMBDA e : e.target = id))

getParents(id) ==
    LET inc == SelectSeq(edges, LAMBDA e : e.target = id)
    IN [i \in DOMAIN inc |-> inc[i].source]

startNodes == SelectSeq(nodes, LAMBDA id : inDegree(id) = 0)

\* ------------------------------------------------------------------
\* Snapshots (ExecutionProgress): nodes maps each listed node id to its status.
Progress(executionId, status, np, err) ==
    [executionId |-> executionId, status |-> status, nodes |-> np, error |-> err]

Snapshot(status, np, err) == Progress(ExecutionId, status, np, err)

AllPending == [id \in NodeSet |-> "pending"]

\* ------------------------------------------------------------------
\* The subscriber table. sseListeners.get(executionId): no entry is no writer.
Listeners(table, executionId) ==
    IF executionId \in DOMAIN table THEN table[executionId] ELSE <<>>

\* registerSSEListener: the entry is created when missing; Set.add of a
\* writer that is in the set already changes nothing.
registerSSEListener(table, executionId, writer) ==
    LET had == Listeners(table, executionId)
        has == IF writer \in Range(had) THEN had ELSE Append(had, writer)
    IN [id \in DOMAIN table \cup {executionId} |->
           IF id = executionId THEN has ELSE table[id]]

\* (Mutant: the entry is kept when its last writer is deleted.)
unregisterKeepsEntry(table, executionId, writer) ==
    IF executionId \notin DOMAIN table THEN table
    ELSE [table EXCEPT ![executionId] = SelectSeq(@, LAMBDA w : w # writer)]

\* unregisterSSEListener: the writer is deleted from the entry, and the entry
\* from the table once it is empty.
unregisterSSEListener(table, executionId, writer) ==
    IF executionId \notin DOMAIN table THEN table
    ELSE LET rest == SelectSeq(table[executionId], LAMBDA w : w # writer)
         IN IF rest = <<>>
            THEN [id \in DOMAIN table \ {executionId} |-> table[id]]
            ELSE [table EXCEPT ![executionId] = rest]

\* (Mutant: the writer call is not inside try/catch, so the first writer that
\* throws ends the loop and emit throws.)
forEachUncaught(writers, throwing) ==
    LET bad == {i \in DOMAIN writers : writers[i] \in throwing}
    IN IF bad = {} THEN [called |-> writers, logged |-> <<>>, threw |-> FALSE]
       ELSE [called |-> SubSeq(writers, 1, CHOOSE i \in bad : \A j \in bad : i <= j),
             logged |-> <<>>, threw |-> TRUE]

\* listeners.forEach of emit: each writer of the entry is called, in insertion
\* order; a call that throws is logged and the loop goes on.
RECURSIVE forEachWriter(_, _)
forEachWriter(writers, throwing) ==
    IF writers = <<>> THEN [called |-> <<>>, logged |-> <<>>, threw |-> FALSE]
    ELSE LET writer == Head(writers)
             rest == forEachWriter(Tail(writers), throwing)
         IN [called |-> <<writer>> \o rest.called,
             logged |-> IF writer \in throwing THEN <<writer>> \o rest.logged
                        ELSE rest.logged,
             threw |-> rest.threw]

\* emit(progress): the writers called, and whether emit threw to its caller.
emit(table, throwing, progress) ==
    forEachWriter(Listeners(table, progress.executionId), throwing)

\* What the writer w is handed by an emit call that ended as `result`: the
\* data, once for each call of w.
WriterCalls(w, result, data) ==
    [i \in 1 .. Len(SelectSeq(result.called, LAMBDA c : c = w)) |-> data]

\* The scheduler emits the snapshots `snaps`, one emit call each.
Emit(snaps) ==
    /\ emitted' = emitted \o snaps
    /\ received' = [w \in BusWriters |->
                      received[w] \o SelectSeq(snaps, LAMBDA p :
                          w \in Range(emit(sseListeners, broken, p).called))]

\* markDownstreamSkipped, as the depth-first descent the code makes: `todo` are
\* the neighbours still to look at. Reading nodeProgress[id].status of an id
\* that is no node throws a TypeError.
RECURSIVE MarkList(_, _)
MarkList(np, todo) ==
    IF todo = <<>> THEN [np |-> np, threw |-> FALSE]
    ELSE LET nb == Head(todo)
         IN IF nb \notin DOMAIN np THEN [np |-> np, threw |-> TRUE]
            ELSE IF np[nb] = "pending"
                 THEN MarkList([np EXCEPT ![nb] = "skipped"], adj(nb) \o Tail(todo))
                 ELSE MarkList(np, Tail(todo))

\* (Mutant: every node still pending is marked, downstream or not.)
markEveryPendingSkipped(np, id) ==
    [np |-> [k \in DOMAIN np |-> IF np[k] = "pending" THEN "skipped" ELSE np[k]],
     threw |-> FALSE]

markDownstreamSkipped(np, id) == MarkList(np, adj(id))

\* The neighbours of `id` pushed on the queue once `id` is visited: those not
\* visited whose parents are all visited. nodeMap[nb] of an id that is no node
\* is undefined, and undefined is pushed.
\* (Mutant: the gate is dropped and every child is pushed at once.)
allParentsVisitedUngated(nb, vis) == TRUE

allParentsVisited(nb, vis) == \A p \in Range(getParents(nb)) : p \in vis

Enqueued(id, vis) ==
    SelectSeq(adj(id), LAMBDA nb : nb \notin vis /\ allParentsVisited(nb, vis))

\* (Mutant: the visited check at the head of the loop is missing.)
KeepVisited(q, vis) == q

\* The head of the while loop: entries already visited are dropped.
RECURSIVE SkipVisited(_, _)
SkipVisited(q, vis) ==
    IF q = <<>> THEN q
    ELSE IF Head(q) \in NodeSet /\ Head(q) \in vis THEN SkipVisited(Tail(q), vis)
    ELSE q

\* The while loop from its head to the next await, with `snaps` the snapshots
\* broadcast since the last await: the queue is empty (completion), its head
\* is undefined (currentNode.id throws), or the head is marked running and its
\* handler is called.
Continue(q, vis, np, snaps) ==
    LET q2 == SkipVisited(q, vis)
    IN /\ visited' = vis
       /\ IF q2 = <<>>
          THEN /\ pc' = "updateCompleted"
               /\ queue' = q2
               /\ nodeProgress' = np
               /\ Emit(snaps \o <<Snapshot("completed", np, NoError)>>)
               /\ UNCHANGED <<current, errorMessage, invoked>>
          ELSE IF Head(q2) \notin NodeSet
          THEN /\ pc' = "updateUnexpected"
               /\ errorMessage' = TypeErrorMsg
               /\ queue' = Tail(q2)
               /\ nodeProgress' = np
               /\ Emit(snaps)
               /\ UNCHANGED <<current, invoked>>
          ELSE LET np2 == [np EXCEPT ![Head(q2)] = "running"]
               IN /\ pc' = "executeNode"
                  /\ current' = Head(q2)
                  /\ queue' = Tail(q2)
                  /\ nodeProgress' = np2
                  /\ Emit(snaps \o <<Snapshot("running", np2, NoError)>>)
                  /\ invoked' = Append(invoked, Head(q2))
                  /\ UNCHANGED errorMessage

\* (Mutant: every start node is seeded, whatever its type.)
SeededEveryStartNode ==
    LET keys == IF triggerData = "undefined" THEN {} ELSE Range(startNodes)
    IN [id \in keys |-> triggerData]

\* The context seeded with the trigger data.
Seeded ==
    LET keys == IF triggerData = "undefined" THEN {}
                ELSE {id \in Range(startNodes) : nodeType[id] = "webhook"}
    IN [id \in keys |-> triggerData]

\* What a handler that returns hands back (executeNode).
Output(id) ==
    IF nodeType[id] = "webhook"
    THEN IF id \in DOMAIN context /\ context[id] # "falsy" THEN context[id] ELSE "stub"
    ELSE "output"

Put(ctx, id, v) == [k \in DOMAIN ctx \cup {id} |-> IF k = id THEN v ELSE ctx[k]]

\* storage.updateExecution(executionId, updates): the row with the columns of
\* `updates` set; a rejected call leaves the row as it is.
updateExecution(updates, ok) ==
    /\ row' = IF ok THEN [c \in DOMAIN row |->
                             IF c \in DOMAIN updates THEN updates[c] ELSE row[c]]
               ELSE row
    /\ storeCalls' = Append(storeCalls, [updates |-> updates, ok |-> ok,
                                         emittedBefore |-> Len(emitted)])

\* ------------------------------------------------------------------
\* (Mutant: the validation loop is missing.)
ExecuteWithoutValidation ==
    /\ pc = "idle"
    /\ row' = [status |-> "pending", error |-> NoError, data |-> EmptyMap,
               finishedAt |-> "null"]
    /\ pc' = "updateRunning"
    /\ nodeProgress' = AllPending
    /\ UNCHANGED <<wf, lib, vault, crypt, busEnv, errorMessage, context, queue, visited, current, bus, hist>>

\* POST /api/workflows/:id/execute: the row is created pending and
\* executeWorkflow runs to its first await (validation, buildGraph).
Execute ==
    /\ pc = "idle"
    /\ row' = [status |-> "pending", error |-> NoError, data |-> EmptyMap,
               finishedAt |-> "null"]
    /\ IF FirstInvalid # GhostId
       THEN /\ pc' = "updateValidation"
            /\ errorMessage' = ValidationError(FirstInvalid)
            /\ UNCHANGED nodeProgress
       ELSE /\ pc' = "updateRunning"
            /\ nodeProgress' = AllPending
            /\ UNCHANGED errorMessage
    /\ UNCHANGED <<wf, lib, vault, crypt, busEnv, context, queue, visited, current, bus, hist>>

\* await storage.updateExecution(executionId, {status: "failed", error}) of
\* the validation branch returns, then the snapshot with every node pending.
UpdateValidation ==
    /\ pc = "updateValidation"
    /\ \E ok \in BOOLEAN :
         /\ updateExecution([status |-> "failed", error |-> errorMessage], ok)
         /\ IF ok
            THEN /\ Emit(<<Snapshot("failed", AllPending, errorMessage)>>)
                 /\ pc' = "done"
                 /\ UNCHANGED errorMessage
            ELSE /\ pc' = "updateUnexpected"
                 /\ errorMessage' = StoreErrorMsg
                 /\ UNCHANGED <<received, emitted>>
    /\ UNCHANGED <<wf, lib, vault, crypt, busEnv, nodeProgress, context, queue, visited, current, sseListeners, invoked>>

\* (Mutant: the running update is left out and the scheduler goes straight on.)
UpdateRunningOmitted ==
    /\ pc = "updateRunning"
    /\ context' = Seeded
    /\ Continue(startNodes, {}, nodeProgress,
                <<Snapshot("running", nodeProgress, NoError)>>)
    /\ UNCHANGED <<wf, lib, vault, crypt, busEnv, row, sseListeners, storeCalls>>

\* await storage.updateExecution(executionId, {status: "running"}) returns;
\* the first snapshot, the seeding and the loop up to the first handler.
UpdateRunning ==
    /\ pc = "updateRunning"
    /\ \E ok \in BOOLEAN :
         /\ updateExecution([status |-> "running"], ok)
         /\ IF ok
            THEN /\ context' = Seeded
                 /\ Continue(startNodes, {}, nodeProgress,
                             <<Snapshot("running", nodeProgress, NoError)>>)
            ELSE /\ pc' = "updateUnexpected"
                 /\ errorMessage' = StoreErrorMsg
                 /\ UNCHANGED <<nodeProgress, context, queue, visited, current,
                                received, emitted, invoked>>
    /\ UNCHANGED <<wf, lib, vault, crypt, busEnv, sseListeners>>

\* (Mutant: the node is not added to the visited set and is pushed on the
\* queue again, so its handler is called over and over.)
NodeSucceedsRequeues ==
    /\ pc = "executeNode"
    /\ Len(invoked) <= MaxSize
    /\ LET np1 == [nodeProgress EXCEPT ![current] = "success"]
       IN /\ context' = Put(context, current, Output(current))
          /\ Continue(queue \o <<current>>, visited, np1,
                      <<Snapshot("running", np1, NoError)>>)
    /\ UNCHANGED <<wf, lib, vault, crypt, busEnv, row, sseListeners, storeCalls>>

\* await executeNode(currentNode, context) returns an output.
NodeSucceeds ==
    /\ pc = "executeNode"
    /\ LET np1 == [nodeProgress EXCEPT ![current] = "success"]
           vis == visited \cup {current}
       IN /\ context' = Put(context, current, Output(current))
          /\ Continue(queue \o Enqueued(current, vis), vis, np1,
                      <<Snapshot("running", np1, NoError)>>)
    /\ UNCHANGED <<wf, lib, vault, crypt, busEnv, row, sseListeners, storeCalls>>

\* (Mutant: the failed node is marked and reported, but the loop goes on with
\* the rest of the queue instead of returning.)
NodeFailsAndContinues ==
    /\ pc = "executeNode"
    /\ nodeType[current] # "webhook"
    /\ LET np1 == [nodeProgress EXCEPT ![current] = "error"]
           m == markDownstreamSkipped(np1, current)
       IN IF m.threw
          THEN /\ nodeProgress' = m.np
               /\ pc' = "updateUnexpected"
               /\ errorMessage' = TypeErrorMsg
               /\ UNCHANGED <<queue, visited, current, received, emitted, invoked>>
          ELSE Continue(queue, visited, m.np,
                        <<Snapshot("failed", m.np, HandlerError(current))>>)
    /\ UNCHANGED <<wf, lib, vault, crypt, busEnv, context, row, sseListeners, storeCalls>>

\* await executeNode(currentNode, context) throws (the webhook handler has
\* nothing that throws).
NodeFails ==
    /\ pc = "executeNode"
    /\ nodeType[current] # "webhook"
    /\ LET np1 == [nodeProgress EXCEPT ![current] = "error"]
           m == markDownstreamSkipped(np1, current)
       IN /\ nodeProgress' = m.np
          /\ IF m.threw
             THEN /\ pc' = "updateUnexpected"
                  /\ errorMessage' = TypeErrorMsg
                  /\ UNCHANGED <<received, emitted>>
             ELSE /\ pc' = "updateFailed"
                  /\ errorMessage' = HandlerError(current)
                  /\ Emit(<<Snapshot("failed", m.np, HandlerError(current))>>)
    /\ UNCHANGED <<wf, lib, vault, crypt, busEnv, context, queue, visited, current, row, sseListeners, invoked,
                   storeCalls>>

\* await storage.updateExecution(executionId, {status: "failed", error, data})
\* of the node-failure branch returns.
UpdateFailed ==
    /\ pc = "updateFailed"
    /\ \E ok \in BOOLEAN :
         /\ updateExecution([status |-> "failed", error |-> errorMessage,
                             data |-> context], ok)
         /\ IF ok
            THEN /\ pc' = "done"
                 /\ UNCHANGED errorMessage
            ELSE /\ pc' = "updateUnexpected"
                 /\ errorMessage' = StoreErrorMsg
    /\ UNCHANGED <<wf, lib, vault, crypt, busEnv, nodeProgress, context, queue, visited, current, bus,
                   emitted, invoked>>

\* (Mutant: a statement after the completed update throws, so the outermost
\* catch runs once the row is completed.)
UpdateCompletedThenThrows ==
    /\ pc = "updateCompleted"
    /\ \E ok \in BOOLEAN :
         /\ updateExecution([status |-> "completed", data |-> context], ok)
         /\ pc' = "updateUnexpected"
         /\ errorMessage' = StoreErrorMsg
    /\ UNCHANGED <<wf, lib, vault, crypt, busEnv, nodeProgress, context, queue, visited, current, bus,
                   emitted, invoked>>

\* await storage.updateExecution(executionId, {status: "completed", data}) returns.
UpdateCompleted ==
    /\ pc = "updateCompleted"
    /\ \E ok \in BOOLEAN :
         /\ updateExecution([status |-> "completed", data |-> context], ok)
         /\ IF ok
            THEN /\ pc' = "done"
                 /\ UNCHANGED errorMessage
            ELSE /\ pc' = "updateUnexpected"
                 /\ errorMessage' = StoreErrorMsg
    /\ UNCHANGED <<wf, lib, vault, crypt, busEnv, nodeProgress, context, queue, visited, current, bus,
                   emitted, invoked>>

\* (Mutant: the outermost catch has no try/catch of its own, so a store
\* failure inside it rejects the promise executeWorkflow returned.)
UpdateUnexpectedRethrows ==
    /\ pc = "updateUnexpected"
    /\ \E ok \in BOOLEAN :
         /\ updateExecution([status |-> "failed",
                             error |-> Unexpected(errorMessage)], ok)
         /\ IF ok
            THEN /\ Emit(<<Snapshot("failed", EmptyMap, errorMessage)>>)
                 /\ pc' = "done"
            ELSE /\ pc' = "rejected"
                 /\ UNCHANGED <<received, emitted>>
    /\ UNCHANGED <<wf, lib, vault, crypt, busEnv, nodeProgress, context, queue, visited, current,
                   errorMessage, sseListeners, invoked>>

\* The outermost catch: await storage.updateExecution(executionId, {status:
\* "failed", error: "Unexpected error: ..."}) returns, then the snapshot with
\* no nodes; a store failure here is logged and nothing is emitted.
UpdateUnexpected ==
    /\ pc = "updateUnexpected"
    /\ \E ok \in BOOLEAN :
         /\ updateExecution([status |-> "failed",
                             error |-> Unexpected(errorMessage)], ok)
         /\ IF ok
            THEN Emit(<<Snapshot("failed", EmptyMap, errorMessage)>>)
            ELSE UNCHANGED <<received, emitted>>
    /\ pc' = "done"
    /\ UNCHANGED <<wf, lib, vault, crypt, busEnv, nodeProgress, context, queue, visited, current,
                   errorMessage, sseListeners, invoked>>

\* GET /api/executions/:id/stream: a client that has learnt the execution id
\* from the response of Execute registers its writer.
Register(w) ==
    /\ pc # "idle"
    /\ w \notin Range(Listeners(sseListeners, ExecutionId))
    /\ sseListeners' = registerSSEListener(sseListeners, ExecutionId, w)
    /\ registered' = registered \cup {<<ExecutionId, w>>}
    /\ UNCHANGED <<wf, lib, vault, crypt, sched, row, received, hist, broken, emitResult,
                   redundant>>

\* ------------------------------------------------------------------
\* Values and strings. A string is known by its text: [json |-> v] is the
\* string whose text is the JSON of the value v ("123" is [json |-> the
\* number 123]), [raw |-> t] a string whose text is no JSON at all ("abc"),
\* [cipher |-> ...] a string that encrypt produced. A number is [num |-> n];
\* every other record is an object.
IsString(v) == DOMAIN v \in {{"json"}, {"raw"}, {"cipher"}}

JSONstringify(v) == [json |-> v]

\* JSON.parse throws a SyntaxError on text that is no JSON.
JSONparses(str) == DOMAIN str = {"json"}

JSONparse(str) == str.json

\* encrypt(data): data is stringified unless it is a string already; the
\* token carries the random iv next to the encrypted text.
encrypt(data, iv) ==
    [cipher |-> [iv |-> iv,
                 text |-> IF IsString(data) THEN data ELSE JSONstringify(data)]]

\* decrypt(encryptedData, asJSON): the authentication tag of anything encrypt
\* did not produce fails to verify, and decipher.final throws; the decrypted
\* text is parsed as JSON unless asJSON is false.
decrypt(encryptedData, asJSON) ==
    IF DOMAIN encryptedData # {"cipher"}
    THEN [threw |-> TRUE, value |-> encryptedData]
    ELSE LET decrypted == encryptedData.cipher.text
         IN IF ~asJSON THEN [threw |-> FALSE, value |-> decrypted]
            ELSE IF JSONparses(decrypted)
                 THEN [threw |-> FALSE, value |-> JSONparse(decrypted)]
                 ELSE [threw |-> TRUE, value |-> decrypted]

\* The credential blobs a client posts.
Blobs(type) ==
    IF type = "gmail-oauth"
    THEN {[tokens |-> [accessToken |-> "issued", expiresAt |-> e]] : e \in 0 .. MaxClock}
    ELSE {[pass |-> "secret"]}

MailIdle == [pc |-> "idle", credentialId |-> 0, decrypted |-> [pass |-> "none"]]

\* POST /api/credentials: the posted JSON text is parsed, encrypted, stored.
CreateCredential ==
    /\ Len(credentials) < MaxCredentials
    /\ \E type \in {"gmail-oauth", "smtp"} : \E blob \in Blobs(type) :
         \E iv \in 1 .. MaxIv :
             credentials' = Append(credentials,
                                   [type |-> type,
                                    data |-> encrypt(JSONparse(JSONstringify(blob)), iv)])
    /\ UNCHANGED <<wf, lib, sched, row, bus, busEnv, hist, crypt, now, mail, mailResult>>

\* executeEmail with a credentialId, up to the token refresh: the row is
\* read and decrypted; a token that has not expired is used as it is.
executeEmail(credentialId) ==
    /\ mail.pc = "idle"
    /\   IF credentialId \notin DOMAIN credentials
         THEN /\ mailResult' = "Credential not found"
              /\ UNCHANGED mail
         ELSE LET credential == credentials[credentialId]
                  decrypted == decrypt(credential.data, TRUE)
              IN IF decrypted.threw
                 THEN /\ mailResult' = "decrypt failed"
                      /\ UNCHANGED mail
                 ELSE IF credential.type # "gmail-oauth"
                 THEN /\ mailResult' = "smtp"
                      /\ UNCHANGED mail
                 ELSE IF decrypted.value.tokens.expiresAt < now
                 THEN /\ mail' = [pc |-> "refreshGmailToken",
                                  credentialId |-> credentialId,
                                  decrypted |-> decrypted.value]
                      /\ UNCHANGED mailResult
                 ELSE /\ mailResult' = "gmail-oauth"
                      /\ UNCHANGED mail
    /\ UNCHANGED <<wf, lib, sched, row, bus, busEnv, hist, crypt, credentials, now>>

ExecuteEmail == \E credentialId \in 1 .. MaxCredentials : executeEmail(credentialId)

\* await refreshGmailToken(...) returns or throws; the refreshed tokens are
\* written back with storage.updateCredential and the message is sent.
RefreshGmailToken ==
    /\ mail.pc = "refreshGmailToken"
    /\ \/ \E expiresIn \in 1 .. MaxExpiresIn :
            LET tokens == [accessToken |-> "refreshed", expiresAt |-> now + expiresIn]
                updated == [mail.decrypted EXCEPT !.tokens = tokens]
            IN /\ credentials' = [credentials EXCEPT ![mail.credentialId].data =
                                                       JSONstringify(updated)]
               /\ mailResult' = "gmail-oauth"
       \/ /\ mailResult' = "Gmail OAuth send failed"
          /\ UNCHANGED credentials
    /\ mail' = MailIdle
    /\ UNCHANGED <<wf, lib, sched, row, bus, busEnv, hist, crypt, now>>

\* The values a caller hands to encrypt: numbers, objects, and strings (text
\* that is no JSON, the JSON text of a number or an object, the JSON text of
\* a string).
Values ==
    LET plain == {[num |-> n] : n \in 0 .. MaxNumber}
                     \cup Blobs("gmail-oauth") \cup Blobs("smtp")
        texts == {[raw |-> "abc"]} \cup {JSONstringify(v) : v \in plain}
    IN plain \cup texts \cup {JSONstringify(t) : t \in texts}

NoToken == [none |-> "token"]

NotRun == [asJSON |-> TRUE, threw |-> FALSE, value |-> NoToken]

\* The values of the template resolver: undefined, null, a number, a string,
\* and an object (a function from its keys to values).
Undefined == [undefined |-> TRUE]

Null == [null |-> TRUE]

IsObject(v) == DOMAIN v = {"obj"}

\* A string value is its pieces in order: literal text, or a `{{path}}`
\* match of the pattern, kept with its path split at the dots.
Lit(t) == [text |-> t]

Ref(path) == [ref |-> path]

IsRef(piece) == DOMAIN piece = {"ref"}

\* context[nodeId]: a key that is missing reads as undefined.
Get(ctx, nodeId) == IF nodeId \in DOMAIN ctx THEN ctx[nodeId] ELSE Undefined

\* The for loop over fieldParts: `found` is FALSE where the loop returns
\* the match.
RECURSIVE Walk(_, _)
Walk(cur, fieldParts) ==
    IF fieldParts = <<>> THEN [found |-> TRUE, cur |-> cur]
    ELSE IF IsObject(cur) /\ Head(fieldParts) \in DOMAIN cur.obj
         THEN Walk(cur.obj[Head(fieldParts)], Tail(fieldParts))
         ELSE [found |-> FALSE, cur |-> cur]

\* JSON.stringify of a template value: undefined has no JSON text and gives
\* undefined.
Stringify(v) == IF v = Undefined THEN Undefined ELSE JSONstringify(v)

\* String.prototype.replace turns what the replacer returns into a string.
StringOf(v) == IF v = Undefined THEN [raw |-> "undefined"] ELSE v

\* The replacer of value.replace: what one match is replaced by.
Replacer(match, ctx) ==
    LET nodeId == Head(match.ref)
        fieldParts == Tail(match.ref)
        walk == Walk(Get(ctx, nodeId), fieldParts)
    IN IF ~walk.found THEN match
       ELSE Lit(StringOf(IF IsString(walk.cur) THEN walk.cur
                         ELSE Stringify(walk.cur)))

\* resolveTemplateVariables on a string value.
resolveTemplateVariables(value, ctx) ==
    [i \in DOMAIN value |->
        IF IsRef(value[i]) THEN Replacer(value[i], ctx) ELSE value[i]]

\* The inputs of the template model.
Segments == {"A", "B", "v"}

Paths == UNION {[1 .. n -> Segments] : n \in 1 .. MaxPath}

Templates ==
    {<<Ref(p)>> : p \in Paths} \cup {<<Lit([raw |-> "abc"]), Ref(p)>> : p \in Paths}

Contexts ==
    { EmptyMap,
      [id \in {"A"} |-> [raw |-> "abc"]],
      [id \in {"A"} |-> [obj |-> [k \in {"v"} |-> [num |-> 1]]]],
      [id \in {"A"} |-> [obj |-> [k \in {"v"} |-> [obj |-> [j \in {"v"} |-> [raw |-> "abc"]]]]]],
      [id \in {"A", "B"} |-> IF id = "A" THEN Null
                              ELSE [obj |-> [k \in {"v", "B"} |-> Null]]] }

NotResolved == [value |-> <<>>, context |-> EmptyMap, result |-> <<>>]

\* ------------------------------------------------------------------
\* executeCode. The user code is what the wrapped async function does with
\* it: it resolves to a value or throws a message, before its first await
\* ("sync") or after one ("later"); or it does not compile ("syntax").
Programs ==
    [kind : {"resolves"}, when : {"sync", "later"},
     value : Values \cup {Undefined, Null}]
        \cup [kind : {"throws"}, when : {"sync", "later"}, value : {[raw |-> "boom"]}]
        \cup [kind : {"syntax"}, when : {"sync"}, value : {[raw |-> "Unexpected token"]}]

NoProgram == [kind |-> "none", when |-> "sync", value |-> Undefined]

SandboxIdle ==
    [pc |-> "idle", program |-> NoProgram, result |-> Undefined,
     promise |-> "none", polls |-> 0]

NoCodeResult == [ended |-> FALSE, threw |-> FALSE, value |-> Undefined]

\* The error the try/catch inside the wrapped function throws.
CodeExecutionError(message) == [wrapped |-> "Code execution error: ", message |-> message]

CodeTimeout == [raw |-> "Code execution timeout"]

\* The error of executeCode's own catch.
ExecutionFailed(err) == [failed |-> "[code] Execution failed: ", message |-> err]

Returned(v) == [ended |-> TRUE, threw |-> FALSE, value |-> v]

Thrown(err) == [ended |-> TRUE, threw |-> TRUE, value |-> err]

\* The wrapped promise settles: `.then(r => $result = r)` stores the value
\* when it is fulfilled; when it is rejected nothing handles the rejection
\* and $result is left as it is.
SettleWrapped(box) ==
    IF box.program.kind = "resolves"
    THEN [box EXCEPT !.promise = "fulfilled", !.result = box.program.value]
    ELSE [box EXCEPT !.promise = "rejected"]

\* A caller encrypts its value.
Encrypt ==
    /\ token = NoToken
    /\ \E iv \in 1 .. MaxIv : token' = encrypt(secret, iv)
    /\ UNCHANGED <<wf, lib, sched, row, bus, busEnv, hist, vault, secret, roundTrip>>

\* The caller decrypts the token it was given.
Decrypt ==
    /\ token # NoToken
    /\ roundTrip = NotRun
    /\ \E asJSON \in BOOLEAN :
         roundTrip' = [asJSON |-> asJSON] @@ decrypt(token, asJSON)
    /\ UNCHANGED <<wf, lib, sched, row, bus, busEnv, hist, vault, secret, token>>

\* Time passes.
Tick ==
    /\ now < MaxClock
    /\ now' = now + 1
    /\ UNCHANGED <<wf, lib, sched, row, bus, busEnv, hist, crypt, credentials, mail, mailResult>>

\* ------------------------------------------------------------------
\* The edges whose two ends are nodes of the workflow.
RealEdges == {e \in Range(edges) : e.source \in NodeSet /\ e.target \in NodeSet}

RECURSIVE ReachFrom(_, _)
ReachFrom(frontier, seen) ==
    LET next == {e.target : e \in {r \in RealEdges : r.source \in frontier}} \ seen
    IN IF next = {} THEN seen ELSE ReachFrom(next, seen \cup next)

\* The nodes reachable from `id` through one or more edges.
Descendants(id) == ReachFrom({id}, {})

\* The workflow documents Init draws. Edges may name ids that are no node
\* (GhostId) and may form cycles, self-loops and duplicates: nothing in
\* POST /api/workflows or executeWorkflow rejects them.
Ends(n) == {NodeIds[i] : i \in 1 .. n} \cup {GhostId}

EdgeSeqs(n, max) ==
    UNION {[1 .. k -> [source : Ends(n), target : Ends(n)]] : k \in 0 .. max}

RequiredFields(type) == IF type = "code" THEN {"code"} ELSE {}

\* Every graph of size at most MaxSize, over valid code nodes, without
\* trigger data.
InitGraphs ==
    \E n \in 0 .. MaxSize :
        /\ nodes = SubSeq(NodeIds, 1, n)
        /\ edges \in EdgeSeqs(n, MaxSize - n)
        /\ nodeType = [id \in Range(SubSeq(NodeIds, 1, n)) |-> "code"]
        /\ nodeData = [id \in Range(SubSeq(NodeIds, 1, n)) |-> {"code"}]
        /\ triggerData = "undefined"

\* Every assignment of node types and data, with or without trigger data,
\* over the graphs of size at most MaxTypedSize.
InitTyped ==
    \E n \in 0 .. MaxTypedSize :
        /\ nodes = SubSeq(NodeIds, 1, n)
        /\ edges \in EdgeSeqs(n, MaxTypedSize - n)
        /\ nodeType \in [Range(SubSeq(NodeIds, 1, n)) -> {"webhook", "code"}]
        /\ nodeData \in [Range(SubSeq(NodeIds, 1, n)) -> SUBSET {"code"}]
        /\ \A id \in DOMAIN nodeData : nodeData[id] \subseteq RequiredFields(nodeType[id])
        /\ triggerData \in {"undefined", "truthy", "falsy"}

InitRun ==
    /\ pc = "idle"
    /\ nodeProgress = EmptyMap
    /\ context = EmptyMap
    /\ queue = <<>>
    /\ visited = {}
    /\ current = GhostId
    /\ errorMessage = NoError
    /\ row = [status |-> "absent", error |-> NoError, data |-> EmptyMap,
              finishedAt |-> "null"]
    /\ sseListeners = EmptyMap
    /\ received = [w \in BusWriters |-> <<>>]
    /\ emitResult = "none"
    /\ registered = {}
    /\ redundant = {}
    /\ resolved = NotResolved
    /\ sandbox = SandboxIdle
    /\ codeResult = NoCodeResult
    /\ emitted = <<>>
    /\ invoked = <<>>
    /\ storeCalls = <<>>
    /\ credentials = <<>>
    /\ now = 0
    /\ mail = MailIdle
    /\ mailResult = "none"
    /\ token = NoToken
    /\ roundTrip = NotRun

InitWorkflow ==
    /\ InitGraphs \/ InitTyped
    /\ secret = NoToken
    /\ broken = {}
    /\ descendants = [id \in NodeSet |-> Descendants(id)]

Init == InitWorkflow /\ InitRun

Scheduler ==
    \/ Execute
    \/ UpdateValidation
    \/ UpdateRunning
    \/ NodeSucceeds
    \/ NodeFails
    \/ UpdateFailed
    \/ UpdateCompleted
    \/ UpdateUnexpected

Next == Scheduler

Spec == Init /\ [][Next]_vars

\* The scheduler on an event loop that resumes it whenever the call it
\* awaits settles: every handler call and every store call returns or throws.
\* Over every graph of size at most MaxLiveSize, of code nodes (whose
\* handlers may fail, and which are valid or all lack their code) or of
\* webhook nodes (whose handlers cannot fail).
InitLive ==
    /\ \E n \in 0 .. MaxLiveSize : \E type \in {"webhook", "code"} :
         /\ nodes = SubSeq(NodeIds, 1, n)
         /\ edges \in EdgeSeqs(n, MaxLiveSize - n)
         /\ nodeType = [id \in Range(SubSeq(NodeIds, 1, n)) |-> type]
         /\ \E data \in SUBSET RequiredFields(type) :
              nodeData = [id \in Range(SubSeq(NodeIds, 1, n)) |-> data]
         /\ triggerData = "undefined"
    /\ secret = NoToken
    /\ broken = {}
    /\ descendants = [id \in NodeSet |-> Descendants(id)]
    /\ InitRun

SpecLive == InitLive /\ [][Next]_vars /\ WF_vars(Scheduler)

\* The scheduler together with a client that opens the stream.
NextStream == Scheduler \/ \E w \in Writers : Register(w)

InitStream ==
    /\ InitTyped
    /\ secret = NoToken
    /\ broken = {}
    /\ descendants = [id \in NodeSet |-> Descendants(id)]
    /\ InitRun

\* The event loop resumes the scheduler whenever the call it awaits settles.
SpecStream == InitStream /\ [][NextStream]_vars /\ WF_vars(Scheduler)

\* No execution running.
InitNoWorkflow ==
    /\ nodes = <<>>
    /\ edges = <<>>
    /\ nodeType = EmptyMap
    /\ nodeData = EmptyMap
    /\ triggerData = "undefined"
    /\ descendants = EmptyMap
    /\ InitRun

\* The credential routes and the email handler.
InitCred == InitNoWorkflow /\ secret = NoToken /\ broken = {}

\* A caller of encrypt and decrypt, with a value of its own.
InitCrypto == InitNoWorkflow /\ secret \in Values /\ broken = {}

NextCrypto == Encrypt \/ Decrypt

SpecCrypto == InitCrypto /\ [][NextCrypto]_vars

\* The progress bus on its own. A stream request registers its writer for the
\* execution id of its URL; the request's 'close' and the response's 'error'
\* each unregister it, so a writer may be unregistered twice, and registered
\* again by the next request.
Subscribe(executionId, writer) ==
    /\ sseListeners' = registerSSEListener(sseListeners, executionId, writer)
    /\ registered' = registered \cup {<<executionId, writer>>}
    /\ redundant' = IF <<executionId, writer>> \in registered
                    THEN redundant \cup {"register"} ELSE redundant
    /\ UNCHANGED <<wf, lib, sched, row, hist, vault, crypt, received, broken, emitResult>>

Unsubscribe(executionId, writer) ==
    /\ sseListeners' = unregisterSSEListener(sseListeners, executionId, writer)
    /\ registered' = registered \ {<<executionId, writer>>}
    /\ redundant' = IF <<executionId, writer>> \notin registered
                    THEN redundant \cup {"unregister"} ELSE redundant
    /\ UNCHANGED <<wf, lib, sched, row, hist, vault, crypt, received, broken, emitResult>>

\* One emit call for the execution id, by a caller that notes how it ended.
EmitProgress(executionId) ==
    /\ Len(emitted) < MaxEmits
    /\ LET progress == Progress(executionId, "running", EmptyMap, NoError)
           result == emit(sseListeners, broken, progress)
       IN /\ emitted' = Append(emitted, progress)
          /\ received' = [w \in BusWriters |->
                            received[w] \o WriterCalls(w, result, progress)]
          /\ emitResult' = IF result.threw THEN "threw" ELSE "returned"
    /\ UNCHANGED <<wf, lib, sched, row, vault, crypt, sseListeners, broken, registered,
                   redundant, invoked, storeCalls>>

InitBus == InitNoWorkflow /\ secret = NoToken /\ broken \in SUBSET BusWriters

NextBus ==
    \/ \E id \in ExecutionIds, w \in BusWriters : Subscribe(id, w)
    \/ \E id \in ExecutionIds, w \in BusWriters : Unsubscribe(id, w)
    \/ \E id \in ExecutionIds : EmitProgress(id)

SpecBus == InitBus /\ [][NextBus]_vars

\* executeCode up to `await new Promise(...)`: the script is compiled and
\* run, the interval and the failsafe timer are set. What the user code did
\* before its first await has settled the wrapped promise by the time the
\* first timer fires.
ExecuteCode ==
    /\ sandbox.pc = "idle"
    /\ \E program \in Programs :
         LET box == [SandboxIdle EXCEPT !.program = program]
         IN IF program.kind = "syntax"
            THEN /\ sandbox' = [box EXCEPT !.pc = "done"]
                 /\ codeResult' = Thrown(ExecutionFailed(program.value))
            ELSE /\ sandbox' = IF program.when = "sync"
                               THEN SettleWrapped([box EXCEPT !.pc = "polling"])
                               ELSE [box EXCEPT !.pc = "polling", !.promise = "pending"]
                 /\ UNCHANGED codeResult
    /\ UNCHANGED <<wf, sched, row, bus, busEnv, hist, vault, crypt, resolved>>

\* The user code gets past its awaits and the wrapped promise settles, at
\* any time before the last firing of the interval (the failsafe timer fires
\* right after that one).
Settle ==
    /\ sandbox.pc = "polling"
    /\ sandbox.promise = "pending"
    /\ sandbox.polls < MaxPolls
    /\ sandbox' = SettleWrapped(sandbox)
    /\ UNCHANGED <<wf, sched, row, bus, busEnv, hist, vault, crypt, resolved, codeResult>>

\* The interval fires: the wait ends when $result is no longer undefined,
\* and executeCode returns sandbox.$result.
Poll ==
    /\ sandbox.pc = "polling"
    /\ sandbox.polls < MaxPolls
    /\ IF sandbox.result # Undefined
       THEN /\ sandbox' = [sandbox EXCEPT !.pc = "done", !.polls = @ + 1]
            /\ codeResult' = Returned(sandbox.result)
       ELSE /\ sandbox' = [sandbox EXCEPT !.polls = @ + 1]
            /\ UNCHANGED codeResult
    /\ UNCHANGED <<wf, sched, row, bus, busEnv, hist, vault, crypt, resolved>>

\* The failsafe timer fires: the wait is rejected and the catch rethrows.
Failsafe ==
    /\ sandbox.pc = "polling"
    /\ sandbox.polls = MaxPolls
    /\ sandbox' = [sandbox EXCEPT !.pc = "done"]
    /\ codeResult' = Thrown(ExecutionFailed(CodeTimeout))
    /\ UNCHANGED <<wf, sched, row, bus, busEnv, hist, vault, crypt, resolved>>

\* The rejection of the wrapped promise is handled nowhere: a runtime that
\* throws on unhandled rejections ends the process, and executeCode with it.
Crash ==
    /\ sandbox.pc = "polling"
    /\ sandbox.promise = "rejected"
    /\ sandbox' = [sandbox EXCEPT !.pc = "crashed"]
    /\ UNCHANGED <<wf, sched, row, bus, busEnv, hist, vault, crypt, resolved, codeResult>>

InitCode == InitNoWorkflow /\ secret = NoToken /\ broken = {}

NextCode == ExecuteCode \/ Settle \/ Poll \/ Failsafe \/ Crash

SpecCode == InitCode /\ [][NextCode]_vars

\* The template resolver on its own: one call on a string value, for every
\* string of the texts below and every context below.
Resolve ==
    /\ \E value \in Templates, ctx \in Contexts :
         resolved' = [value |-> value, context |-> ctx,
                      result |-> resolveTemplateVariables(value, ctx)]
    /\ UNCHANGED <<wf, sched, row, bus, busEnv, hist, vault, crypt, sandbox, codeResult>>

InitTemplate == InitNoWorkflow /\ secret = NoToken /\ broken = {}

NextTemplate == Resolve

SpecTemplate == InitTemplate /\ [][NextTemplate]_vars

NextCred ==
    \/ CreateCredential
    \/ ExecuteEmail
    \/ RefreshGmailToken
    \/ Tick

SpecCred == InitCred /\ [][NextCred]_vars

\* ==================================================================
\* Properties.

Last(s) == s[Len(s)]

Terminal == {"completed", "failed"}

\* C1: a handler is invoked only once every node with an edge into its node
\* has status success; in nodeProgress and in every emitted snapshot a node
\* that is running or success has all its ancestors success.
C1_ParentsSucceedFirst ==
    LET Gated(np) == \A a \in DOMAIN np :
                        np[a] # "success"
                            => \A id \in descendants[a] : np[id] \notin {"running", "success"}
    IN /\ pc = "executeNode"
            => \A p \in Range(getParents(current)) \cap NodeSet :
                   nodeProgress[p] = "success"
       /\ Gated(nodeProgress)
       /\ \A i \in DOMAIN emitted : Gated(emitted[i].nodes)

\* C1 witness: the handler of a node with two distinct parents runs, one of
\* the parents itself having a parent.
C1_Witness ==
    /\ pc = "executeNode"
    /\ Cardinality(Range(getParents(current))) >= 2
    /\ \E p \in Range(getParents(current)) : getParents(p) # <<>>

\* C2 (as stated; refuted): on the step in which a node goes from running to
\* error, every other node reachable from it becomes skipped and every node
\* not reachable from it keeps its status.
C2_SkipCascadeIsExact ==
    [][\A f \in DOMAIN nodeProgress :
          (nodeProgress[f] = "running" /\ nodeProgress'[f] = "error")
              => \A id \in DOMAIN nodeProgress \ {f} :
                     nodeProgress'[id] = IF id \in descendants[f] THEN "skipped"
                                         ELSE nodeProgress[id]]_vars

\* C3: once a node has status error no handler is invoked any more (the
\* failed node's handler is the last one invoked, and was invoked once), the
\* execution is reported failed (the snapshot that carries the error has
\* status failed, nothing reports completed, and the row is failed at the end
\* unless the store rejected the last update), and no descendant of the
\* failed node has status success.
C3_FailureIsTerminal ==
    \A f \in DOMAIN nodeProgress :
        nodeProgress[f] = "error" =>
          LET below == descendants[f]
          IN
            /\ pc \in {"updateFailed", "updateUnexpected", "done"}
            /\ invoked # <<>> /\ Last(invoked) = f
            /\ Cardinality({i \in DOMAIN invoked : invoked[i] = f}) = 1
            /\ row.status # "completed"
            /\ \A i \in DOMAIN emitted :
                   /\ emitted[i].status # "completed"
                   /\ (f \in DOMAIN emitted[i].nodes /\ emitted[i].nodes[f] = "error")
                          => emitted[i].status = "failed"
                   /\ \A d \in below \cap DOMAIN emitted[i].nodes :
                          emitted[i].nodes[d] # "success"
            /\ pc = "done" => row.status = "failed" \/ ~Last(storeCalls).ok
            /\ \A d \in below : nodeProgress[d] # "success"

\* C3 witness: a node failed after another had succeeded, a sibling branch
\* was still queued, and the scheduler has returned with the row failed.
C3_Witness ==
    /\ pc = "done"
    /\ row.status = "failed"
    /\ queue # <<>>
    /\ \E f \in DOMAIN nodeProgress : nodeProgress[f] = "error"
    /\ \E g \in DOMAIN nodeProgress : nodeProgress[g] = "success"

\* C4 (as stated; refuted): when the row is completed, the keys of its data
\* are exactly the node ids of the workflow.
C4_CompletedDataHasEveryNode ==
    row.status = "completed" => DOMAIN row.data = NodeSet

\* C5: once the row is completed or failed, no step of the scheduler changes
\* any of its columns.
C5_TerminalRowIsFinal == [][row.status \in Terminal => row' = row]_vars

\* C5 witness: a store call was rejected part-way and the row still reached
\* a terminal status, with the scheduler returned.
C5_Witness ==
    /\ pc = "done"
    /\ row.status \in Terminal
    /\ \E i \in DOMAIN storeCalls : ~storeCalls[i].ok

\* C6 (as stated; refuted): the data column of every credential row is a
\* ciphertext that encrypt produced.
C6_CredentialDataIsCiphertext ==
    \A id \in DOMAIN credentials : DOMAIN credentials[id].data = {"cipher"}

\* C7 (as stated; refuted): every emitted snapshot has an entry for each node
\* of the workflow and for nothing else.
C7_SnapshotListsEveryNode ==
    \A i \in DOMAIN emitted : DOMAIN emitted[i].nodes = NodeSet

Final == {"success", "error", "skipped"}

\* May a node whose status was s in one snapshot have status t in a later one.
NotBackwards(s, t) ==
    \/ s = t
    \/ s = "pending"
    \/ s = "running" /\ t \in Final

\* C8: for each node, the statuses the successive snapshots carry never move
\* backwards along pending, running, {success, error, skipped} (skipped may
\* follow pending directly) and never change once success, error or skipped.
C8_StatusesMoveForward ==
    \A i \in DOMAIN emitted :
        LET earlier == emitted[i].nodes
        IN \A id \in DOMAIN earlier :
               earlier[id] # "pending"
                   => \A j \in i + 1 .. Len(emitted) :
                          id \in DOMAIN emitted[j].nodes
                              => NotBackwards(earlier[id], emitted[j].nodes[id])

\* C8 witness: the snapshots show one node pending, running, then success,
\* and another node pending, then skipped.
C8_Witness ==
    \E j \in DOMAIN emitted : \E a, b \in DOMAIN emitted[j].nodes :
        /\ emitted[j].nodes[a] = "success"
        /\ emitted[j].nodes[b] = "skipped"
        /\ \E i \in 1 .. j - 1 : /\ a \in DOMAIN emitted[i].nodes
                                 /\ emitted[i].nodes[a] = "running"
                                 /\ emitted[i].nodes[b] = "pending"

\* C9: in every emitted snapshot a skipped node has an ancestor with status
\* error, and no node is running in one snapshot and skipped in a later one.
C9_SkippedHasFailedAncestor ==
    \A j \in DOMAIN emitted :
        LET np == emitted[j].nodes
        IN \A id \in DOMAIN np :
               np[id] = "skipped"
                   => /\ \E a \in DOMAIN np : id \in descendants[a] /\ np[a] = "error"
                      /\ \A i \in 1 .. j - 1 :
                             id \in DOMAIN emitted[i].nodes
                                 => emitted[i].nodes[id] # "running"

\* C9 witness: a snapshot in which a node is skipped that is no child of the
\* failed node (it is reached through another skipped node), next to a node
\* that is not downstream and stays as it was.
C9_Witness ==
    \E i \in DOMAIN emitted : \E f, id, other \in DOMAIN emitted[i].nodes :
        /\ emitted[i].nodes[f] = "error"
        /\ emitted[i].nodes[id] = "skipped"
        /\ id \in descendants[f]
        /\ id \notin Range(adj(f))
        /\ other \notin descendants[f] \cup {f}
        /\ emitted[i].nodes[other] = "pending"

\* C10 (as stated; refuted): a client whose writer is registered eventually
\* receives a snapshot with status completed or failed.
C10_ClientGetsTerminalSnapshot ==
    \A w \in Writers :
        [](w \in Range(Listeners(sseListeners, ExecutionId))
              => <>(\E i \in DOMAIN received[w] : received[w][i].status \in Terminal))

\* C11 (as stated; refuted): a snapshot with status completed or failed is the
\* last snapshot emitted; in particular no failed snapshot follows a
\* completed one.
C11_TerminalSnapshotIsLast ==
    \A i \in DOMAIN emitted : emitted[i].status \in Terminal => i = Len(emitted)

\* C12 (as stated; refuted): the status of the row changes only from pending
\* to running and from running to completed or failed.
C12_RowPassesThroughRunning ==
    [][row'.status # row.status
          => <<row.status, row'.status>> \in
                 {<<"absent", "pending">>, <<"pending", "running">>,
                  <<"running", "completed">>, <<"running", "failed">>}]_vars

\* C12 (amended): the status of the row changes only from pending to running,
\* from running to completed or failed, or from pending straight to failed
\* (validation fails before the running update, or that update is rejected);
\* completed is reached only from running.
C12_RowStatusHistory ==
    [][row'.status # row.status
          => <<row.status, row'.status>> \in
                 {<<"absent", "pending">>, <<"pending", "running">>,
                  <<"running", "completed">>, <<"running", "failed">>,
                  <<"pending", "failed">>}]_vars

\* C12 witness: validation failed and the row is failed without any running
\* update having been made.
C12_Witness ==
    /\ pc = "done"
    /\ row.status = "failed"
    /\ row.error.prefix = "Validation error: "
    /\ \A i \in DOMAIN storeCalls : storeCalls[i].updates.status # "running"

C14_NeverRejects ==
    /\ pc \in {"idle", "updateValidation", "updateRunning", "executeNode",
               "updateFailed", "updateCompleted", "updateUnexpected", "done"}
    /\ \A i \in DOMAIN storeCalls :
           ~storeCalls[i].ok =>
               IF i = Len(storeCalls)
               THEN pc \in {"updateUnexpected", "done"}
               ELSE /\ i + 1 = Len(storeCalls)
                    /\ storeCalls[i + 1].updates.status = "failed"
                    /\ storeCalls[i + 1].updates.error.prefix = "Unexpected error: "
                    /\ pc = "done"
    /\ pc = "updateUnexpected" => errorMessage # NoError

\* C14 witness: a node failed, the store rejected the failed update, and it
\* rejected the outermost catch's update too; the scheduler has returned.
C14_Witness ==
    /\ pc = "done"
    /\ \E f \in DOMAIN nodeProgress : nodeProgress[f] = "error"
    /\ Len(storeCalls) >= 2
    /\ ~storeCalls[Len(storeCalls)].ok
    /\ ~storeCalls[Len(storeCalls) - 1].ok

\* C15 (as stated; refuted): when the scheduler has returned with the row
\* failed, the error of the last emitted snapshot is the error stored in the
\* row.
C15_SnapshotErrorIsRowError ==
    (pc = "done" /\ row.status = "failed" /\ emitted # <<>>)
        => Last(emitted).error = row.error

\* C16 (as stated; refuted): decrypt with asJSON = true of what encrypt made
\* of a value returns that value.
C16_DecryptInvertsEncrypt ==
    (roundTrip # NotRun /\ roundTrip.asJSON)
        => ~roundTrip.threw /\ roundTrip.value = secret

\* C17: no node's handler is invoked twice in one execution.
C17_HandlerRunsAtMostOnce ==
    \A i, j \in DOMAIN invoked : invoked[i] = invoked[j] => i = j

\* C17 witness: a node that is the target of two equal edges has been queued
\* twice (its second entry is still on the queue while its handler runs).
C17_Witness ==
    /\ pc = "executeNode"
    /\ current \in Range(queue)
    /\ \E i, j \in DOMAIN edges : i # j /\ edges[i] = edges[j] /\ edges[i].target = current

\* C18 (as stated; refuted): when the edges of the workflow form a cycle, no
\* handler is invoked and the execution is never reported completed, neither
\* in the row nor in a snapshot.
C18_CycleIsRejected ==
    (\E a \in NodeSet : a \in descendants[a])
        => /\ invoked = <<>>
           /\ row.status # "completed"
           /\ \A i \in DOMAIN emitted : emitted[i].status # "completed"

C20_TableHoldsRegisteredWriters ==
    /\ DOMAIN sseListeners = {id \in ExecutionIds :
                                 \E w \in BusWriters : <<id, w>> \in registered}
    /\ \A id \in DOMAIN sseListeners :
         /\ sseListeners[id] # <<>>
         /\ Range(sseListeners[id]) = {w \in BusWriters : <<id, w>> \in registered}
         /\ Cardinality(Range(sseListeners[id])) = Len(sseListeners[id])

\* C20's case: a writer was registered twice, a writer that was not registered
\* was unregistered, and the last writer of an id has gone while the other id
\* keeps its entry.
C20_Witness ==
    /\ redundant = {"register", "unregister"}
    /\ \E id \in ExecutionIds, w \in BusWriters :
         /\ received[w] # <<>>
         /\ received[w][1].executionId = id
         /\ id \notin DOMAIN sseListeners
    /\ sseListeners # EmptyMap

\* A path addresses a value of the context when its node id is a key of the
\* context and every further segment is a key of the object reached so far.
RECURSIVE HasPath(_, _)
HasPath(v, parts) ==
    \/ parts = <<>>
    \/ /\ IsObject(v)
       /\ Head(parts) \in DOMAIN v.obj
       /\ HasPath(v.obj[Head(parts)], Tail(parts))

Addresses(ctx, path) ==
    /\ Head(path) \in DOMAIN ctx
    /\ HasPath(ctx[Head(path)], Tail(path))

\* C21: a reference whose lookup fails at any step, the node id included, is
\* left in the resolved string as it was; no text takes its place.
C21_FailedLookupLeavesReference ==
    \A i \in DOMAIN resolved.value :
        LET piece == resolved.value[i]
        IN (IsRef(piece) /\ ~Addresses(resolved.context, piece.ref))
               => resolved.result[i] = piece

\* C22: once a refresh has persisted new tokens for a credential, an email
\* node that uses the credential while the stored expiresAt is still in the
\* future decrypts the row, finds the refreshed tokens and sends with them,
\* without another refresh.
C22_RefreshedCredentialIsUsable ==
    [][\A id \in DOMAIN credentials :
         LET data == credentials[id].data
         IN (/\ DOMAIN data = {"json"}
             /\ data.json.tokens.accessToken = "refreshed"
             /\ data.json.tokens.expiresAt > now
             /\ executeEmail(id))
                => mailResult' = "gmail-oauth"]_vars

\* C23: before any snapshot with a terminal status is emitted, the store has
\* accepted an update that sets the row to that status, with the final
\* context as its data.
C23_TerminalPersistedBeforeEmitted ==
    \A i \in DOMAIN emitted :
        emitted[i].status \in Terminal
            => \E k \in DOMAIN storeCalls :
                 LET call == storeCalls[k]
                 IN /\ call.ok
                    /\ call.emittedBefore < i
                    /\ call.updates.status = emitted[i].status
                    /\ "data" \in DOMAIN call.updates => call.updates.data = context

\* The parents of a node that are nodes of the workflow.
RealParents(id) == {e.source : e \in {r \in RealEdges : r.target = id}}

\* C24: an edge with an endpoint that is no node changes nothing. The
\* execution never fails with the error of reading a node that does not
\* exist, and when it is reported completed every node whose parents among
\* the workflow's nodes all succeeded has run and succeeded too.
C24_DanglingEdgeIsNoOp ==
    /\ errorMessage.text # TypeErrorMsg.text
    /\ \A i \in DOMAIN emitted :
         emitted[i].status = "completed"
             => \A id \in NodeSet :
                  (\A p \in RealParents(id) : emitted[i].nodes[p] = "success")
                      => emitted[i].nodes[id] = "success"

\* C25: when trigger data is given, truthy or falsy, the output the context
\* holds for a start node of type webhook is the trigger data, and no node
\* whose handler has not run has an output unless it is such a start node.
C25_TriggerDataIsWebhookOutput ==
    triggerData # "undefined"
        => \A id \in DOMAIN context :
             IF nodeType[id] = "webhook" /\ inDegree(id) = 0
             THEN context[id] = triggerData
             ELSE id \in Range(invoked)

\* Is the node a start node of type webhook that trigger data was given for.
IsSeeded(id) ==
    /\ triggerData # "undefined"
    /\ nodeType[id] = "webhook"
    /\ inDegree(id) = 0

\* C26 (as stated; refuted): every key of the context, and of the context
\* persisted in the row, is a node with status success.
C26_ContextKeysSucceeded ==
    /\ \A id \in DOMAIN context : nodeProgress[id] = "success"
    /\ \A id \in DOMAIN row.data : nodeProgress[id] = "success"

\* C26 (amended): every key of the context, and of the context persisted in
\* the row, is a node with status success, or a start node of type webhook
\* that holds the trigger data it was seeded with.
C26_ContextKeysSucceededOrSeeded ==
    /\ \A id \in DOMAIN context :
         \/ nodeProgress[id] = "success"
         \/ IsSeeded(id) /\ context[id] = triggerData
    /\ \A id \in DOMAIN row.data :
         \/ nodeProgress[id] = "success"
         \/ IsSeeded(id) /\ row.data[id] = triggerData

\* C26's case: a failed execution whose persisted context holds the output of
\* a node that succeeded and the seed of a start node that never ran.
C26_Witness ==
    /\ row.status = "failed"
    /\ \E a \in DOMAIN row.data, b \in DOMAIN row.data :
         /\ nodeProgress[a] = "success"
         /\ nodeProgress[b] \in {"pending", "skipped"}
         /\ IsSeeded(b)

\* C27: when the user code has thrown before the failsafe timer fires,
\* executeCode ends with an error that carries the message the code threw,
\* not with the timeout error.
C27_ThrownErrorIsReported ==
    (/\ sandbox.program.kind = "throws"
     /\ sandbox.promise = "rejected"
     /\ codeResult.ended)
        => /\ codeResult.threw
           /\ codeResult.value # ExecutionFailed(CodeTimeout)
           /\ codeResult.value.message.message = sandbox.program.value

\* C28: when the wrapped function has resolved before the failsafe timer
\* fires, executeCode returns exactly the value it resolved to, undefined
\* included.
C28_ResolvedValueIsReturned ==
    (/\ sandbox.program.kind = "resolves"
     /\ sandbox.promise = "fulfilled"
     /\ codeResult.ended)
        => codeResult = Returned(sandbox.program.value)

\* C29: every execution ends. Whatever the workflow (cycles, self-loops and
\* duplicate edges included), and whether the handlers and the store calls
\* return or throw, executeWorkflow returns after finitely many steps.
C29_ExecutionTerminates == <>(pc = "done")

\* C29's case: the execution of a workflow with a cycle that can be reached
\* from a start node, and with an edge that occurs twice, has ended after a
\* handler failed and the skip cascade went through the cycle.
C29_Witness ==
    /\ pc = "done"
    /\ \E id \in DOMAIN nodeProgress :
         id \in descendants[id] /\ nodeProgress[id] = "skipped"
    /\ \E i, j \in DOMAIN edges : i # j /\ edges[i] = edges[j]

\* C30: every execution row in a terminal status has its finishedAt set.
C30_TerminalRowHasFinishedAt ==
    row.status \in Terminal => row.finishedAt # "null"

====
